---- MODULE Spec2Model ----
(***************************************************************************)
(* Customer reconstruction from the SQLite store.                          *)
(*                                                                         *)
(*   setup_database.py      creates the four tables and seeds CUST001      *)
(*   entities/customer.py   Customer.get_customer: the fetch operation     *)
(*                                                                         *)
(* A column value is a record [t, n, s]: t is the storage class (and the   *)
(* Python type sqlite3 hands back for it), n the number of an integer or   *)
(* a real (a real is kept in hundredths), s the text as a sequence of      *)
(* lexemes.  A plain word is one lexeme; the empty string is <<>>; JSON    *)
(* punctuation ( [ ] { } , and the double quote) is one lexeme each.       *)
(***************************************************************************)
EXTENDS Integers, Sequences, FiniteSets, TLC

(* ------------------------------ bounds --------------------------------- *)

\* rows an external writer may add to the purchases table
MaxPurchases == 2

(* ------------------------------ values --------------------------------- *)

Null == [t |-> "null", n |-> 0, s |-> <<>>]
IntV(k) == [t |-> "integer", n |-> k, s |-> <<>>]
RealV(h) == [t |-> "real", n |-> h, s |-> <<>>]
TextV(ls) == [t |-> "text", n |-> 0, s |-> ls]
T(w) == TextV(<<w>>)
BoolV(b) == [t |-> "bool", n |-> IF b THEN 1 ELSE 0, s |-> <<>>]
\* the class object, which a classmethod receives as its first argument
ClassObj == [t |-> "type", n |-> 0, s |-> <<"Customer">>]
\* a local name that has not been assigned yet
Unset == [t |-> "unset", n |-> 0, s |-> <<>>]

Quote == "\""

(* ------------------------------ json ----------------------------------- *)

Digits == {"0", "1", "2", "3", "4", "5", "6", "7", "8", "9"}

\* json.dumps of a list of str (a sequence of text values) or of the empty dict
RECURSIVE DumpElems(_)
DumpElems(xs) ==
    IF xs = <<>> THEN <<>>
    ELSE LET one == <<Quote>> \o Head(xs).s \o <<Quote>>
         IN IF Len(xs) = 1 THEN one
            ELSE one \o <<",">> \o DumpElems(Tail(xs))

json_dumps(v) ==
    IF v.t = "dict" THEN TextV(<<"{", "}">>)
    ELSE TextV(<<"[">> \o DumpElems(v.items) \o <<"]">>)

EmptyDict == [t |-> "dict", items |-> <<>>]
PyList(xs) == [t |-> "list", items |-> xs]

\* One scalar at position i of the lexemes: a quoted string or a number.
\* Gives [ok, val, next].
ParseScalar(ls, i) ==
    IF i > Len(ls) THEN [ok |-> FALSE, val |-> Null, next |-> i]
    ELSE IF ls[i] = Quote
    THEN IF i + 1 <= Len(ls) /\ ls[i + 1] = Quote
         THEN [ok |-> TRUE, val |-> TextV(<<>>), next |-> i + 2]
         ELSE IF i + 2 <= Len(ls) /\ ls[i + 2] = Quote
         THEN [ok |-> TRUE, val |-> T(ls[i + 1]), next |-> i + 3]
         ELSE [ok |-> FALSE, val |-> Null, next |-> i]
    ELSE IF ls[i] \in Digits
    THEN [ok |-> TRUE, val |-> IntV(CHOOSE d \in 0..9 : ToString(d) = ls[i]), next |-> i + 1]
    ELSE [ok |-> FALSE, val |-> Null, next |-> i]

\* The elements of an array after its "[", up to and including its "]".
RECURSIVE ParseElems(_, _, _)
ParseElems(ls, i, acc) ==
    LET e == ParseScalar(ls, i)
    IN IF ~e.ok THEN [ok |-> FALSE, val |-> acc, next |-> i]
       ELSE IF e.next <= Len(ls) /\ ls[e.next] = "]"
       THEN [ok |-> TRUE, val |-> Append(acc, e.val), next |-> e.next + 1]
       ELSE IF e.next <= Len(ls) /\ ls[e.next] = ","
       THEN ParseElems(ls, e.next + 1, Append(acc, e.val))
       ELSE [ok |-> FALSE, val |-> acc, next |-> i]

\* json.loads: [err, val].  err is "" on success, else the exception's name.
\* Arrays of scalars, "{}" and scalars are decoded; every other text is a
\* JSONDecodeError, and an argument that is not text is a TypeError.
json_loads(v) ==
    IF v.t # "text" THEN [err |-> "TypeError", val |-> Null]
    ELSE LET ls == v.s
             bad == [err |-> "JSONDecodeError", val |-> Null]
         IN IF ls = <<>> THEN bad
            ELSE IF ls[1] = "[" THEN
                 IF Len(ls) >= 2 /\ ls[2] = "]"
                 THEN IF Len(ls) = 2 THEN [err |-> "", val |-> PyList(<<>>)] ELSE bad
                 ELSE LET r == ParseElems(ls, 2, <<>>)
                      IN IF r.ok /\ r.next = Len(ls) + 1
                         THEN [err |-> "", val |-> PyList(r.val)] ELSE bad
            ELSE IF ls = <<"{", "}">> THEN [err |-> "", val |-> EmptyDict]
            ELSE LET r == ParseScalar(ls, 1)
                 IN IF r.ok /\ r.next = Len(ls) + 1
                    THEN [err |-> "", val |-> r.val] ELSE bad

(* ---------------------------- pydantic --------------------------------- *)

\* What a field annotated str, int, float accepts (pydantic's default mode)
\* among the values a column can hold: numeric text never reaches an INTEGER
\* or REAL column as text, the column's affinity converts it on insert.
ValidStr(v) == v.t = "text"
ValidInt(v) == v.t = "integer" \/ (v.t = "real" /\ v.n % 100 = 0)
ValidFloat(v) == v.t \in {"real", "integer"}
\* List[str]: a list whose every element is a str
ValidListStr(v) == v.t = "list" /\ \A k \in 1..Len(v.items) : ValidStr(v.items[k])

\* bool(x) of a column value
bool(v) ==
    CASE v.t = "null" -> FALSE
      [] v.t = "text" -> v.s # <<>>
      [] OTHER -> v.n # 0

\* Each constructor gives [err, val]: err is "" and val the model, or err is
\* "ValidationError".
Invalid == [err |-> "ValidationError", val |-> Unset]

Address(street, city, state, zip) ==
    IF \A v \in {street, city, state, zip} : ValidStr(v)
    THEN [err |-> "",
          val |-> [t |-> "Address", street |-> street, city |-> city,
                   state |-> state, zip |-> zip]]
    ELSE Invalid

CommunicationPreferences(email, sms, push_notifications) ==
    [err |-> "",
     val |-> [t |-> "CommunicationPreferences", email |-> email, sms |-> sms,
              push_notifications |-> push_notifications]]

GardenProfile(type, size, sun_exposure, soil_type, interests) ==
    IF (\A v \in {type, size, sun_exposure, soil_type} : ValidStr(v))
       /\ ValidListStr(interests)
    THEN [err |-> "",
          val |-> [t |-> "GardenProfile", type |-> type, size |-> size,
                   sun_exposure |-> sun_exposure, soil_type |-> soil_type,
                   interests |-> interests.items]]
    ELSE Invalid

Product(product_id, name, quantity) ==
    IF ValidStr(product_id) /\ ValidStr(name) /\ ValidInt(quantity)
    THEN [err |-> "",
          val |-> [t |-> "Product", product_id |-> product_id, name |-> name,
                   quantity |-> IF quantity.t = "real"
                                THEN IntV(quantity.n \div 100) ELSE quantity]]
    ELSE Invalid

Purchase(date, items, total_amount) ==
    IF ValidStr(date) /\ ValidFloat(total_amount)
    THEN [err |-> "",
          val |-> [t |-> "Purchase", date |-> date, items |-> items,
                   total_amount |-> IF total_amount.t = "integer"
                                    THEN RealV(total_amount.n * 100)
                                    ELSE total_amount]]
    ELSE Invalid

\* class Customer: the fields it declares, taken from the keyword arguments;
\* keys it does not declare are ignored.
Customer(data) ==
    IF /\ \A f \in {"account_number", "customer_id", "customer_first_name",
                    "customer_last_name", "email", "customer_start_date",
                    "preferred_store"} : ValidStr(data[f])
       /\ data.phone_number.t \in {"text", "null"}
       /\ ValidInt(data.years_as_customer) /\ ValidInt(data.loyalty_points)
       /\ data.billing_address.t = "Address"
       /\ data.communication_preferences.t = "CommunicationPreferences"
       /\ data.garden_profile.t \in {"GardenProfile", "null"}
       /\ \A k \in 1..Len(data.purchase_history) :
             data.purchase_history[k].t = "Purchase"
    THEN [err |-> "",
          val |-> [t |-> "Customer",
                   account_number |-> data.account_number,
                   customer_id |-> data.customer_id,
                   customer_first_name |-> data.customer_first_name,
                   customer_last_name |-> data.customer_last_name,
                   email |-> data.email,
                   phone_number |-> data.phone_number,
                   customer_start_date |-> data.customer_start_date,
                   years_as_customer |-> data.years_as_customer,
                   billing_address |-> data.billing_address,
                   purchase_history |-> data.purchase_history,
                   loyalty_points |-> data.loyalty_points,
                   preferred_store |-> data.preferred_store,
                   communication_preferences |-> data.communication_preferences,
                   garden_profile |-> data.garden_profile]]
    ELSE Invalid

(* ------------------------------ store ---------------------------------- *)

\* the row setup_database.py inserts into customers
SampleCustomer ==
    [customer_id |-> T("CUST001"), account_number |-> T("ACC12345"),
     customer_first_name |-> T("John"), customer_last_name |-> T("Smith"),
     email |-> T("john.smith@email.com"), phone_number |-> T("555-0123"),
     customer_start_date |-> T("2020-05-01"), years_as_customer |-> IntV(4),
     billing_address_street |-> T("123 Garden Lane"),
     billing_address_city |-> T("Springfield"),
     billing_address_state |-> T("IL"), billing_address_zip |-> T("62701"),
     loyalty_points |-> IntV(250),
     preferred_store |-> T("Springfield Garden Center"),
     comm_pref_email |-> IntV(1), comm_pref_sms |-> IntV(0),
     comm_pref_push |-> IntV(1),
     garden_type |-> T("Vegetable Garden"), garden_size |-> T("Medium"),
     garden_sun_exposure |-> T("Full Sun"), garden_soil_type |-> T("Loamy"),
     garden_interests |->
         TextV(<<"Organic Gardening", ",", "Composting", ",", "Herb Growing">>),
     scheduled_appointments |-> json_dumps(EmptyDict)]

products_to_insert ==
    << <<"fert-111", "All-Purpose Fertilizer">>,
       <<"trowel-222", "Gardening Trowel">>,
       <<"seeds-333", "Tomato Seeds (Variety Pack)">>,
       <<"pots-444", "Terracotta Pots (6-inch)">>,
       <<"gloves-555", "Gardening Gloves (Leather)">>,
       <<"pruner-666", "Pruning Shears">> >>

sample_purchases ==
    << [date |-> "2023-03-05", total |-> RealV(3598),
        items |-> << <<"fert-111", IntV(1)>>, <<"trowel-222", IntV(1)>> >>],
       [date |-> "2023-07-12", total |-> RealV(4250),
        items |-> << <<"seeds-333", IntV(2)>>, <<"pots-444", IntV(4)>> >>],
       [date |-> "2024-01-20", total |-> RealV(5525),
        items |-> << <<"gloves-555", IntV(1)>>, <<"pruner-666", IntV(1)>> >>] >>

\* INSERT INTO purchases, then one INSERT INTO purchase_items per item, the
\* purchase_id being cursor.lastrowid.  db is [purchases, purchase_items].
RECURSIVE InsertItems(_, _, _)
InsertItems(rows, purchase_id, items) ==
    IF items = <<>> THEN rows
    ELSE InsertItems(
           Append(rows, [purchase_item_id |-> IntV(Len(rows) + 1),
                         purchase_id |-> IntV(purchase_id),
                         product_id |-> T(Head(items)[1]),
                         quantity |-> Head(items)[2]]),
           purchase_id, Tail(items))

InsertPurchase(db, cid, purchase) ==
    LET purchase_id == Len(db.purchases) + 1
    IN [purchases |->
            Append(db.purchases,
                   [purchase_id |-> IntV(purchase_id), customer_id |-> cid,
                    date |-> T(purchase.date), total_amount |-> purchase.total]),
        purchase_items |->
            InsertItems(db.purchase_items, purchase_id, purchase.items)]

RECURSIVE InsertPurchases(_, _, _)
InsertPurchases(db, cid, ps) ==
    IF ps = <<>> THEN db
    ELSE InsertPurchases(InsertPurchase(db, cid, Head(ps)), cid, Tail(ps))

SampleProducts ==
    [k \in 1..Len(products_to_insert) |->
        [product_id |-> T(products_to_insert[k][1]),
         name |-> T(products_to_insert[k][2])]]

SampleDb ==
    InsertPurchases([purchases |-> <<>>, purchase_items |-> <<>>],
                    T("CUST001"), sample_purchases)

\* Rows a writer other than setup_database.py may add, each admitted by the
\* schema (keys unique, NOT NULL columns filled, foreign keys resolved).
Interests == PyList(<<T("Herbs"), T("Roses")>>)

GardenTypes == {Null, TextV(<<>>), T("Herb Garden")}
GardenInterests ==
    {Null, json_dumps(Interests), TextV(<<"Herbs", ",", "Roses">>),
     json_dumps(EmptyDict)}

OtherCustomer(gt, gs, gi, zip) ==
    [SampleCustomer EXCEPT
        !.customer_id = T("CUST002"), !.account_number = T("ACC67890"),
        !.customer_first_name = T("Jane"), !.customer_last_name = T("Doe"),
        !.email = T("jane.doe@email.com"), !.phone_number = Null,
        !.comm_pref_email = IntV(1), !.comm_pref_sms = Null,
        !.comm_pref_push = IntV(0),
        !.garden_type = gt, !.garden_size = gs, !.garden_interests = gi,
        !.billing_address_zip = zip]

CustomerChoices ==
    {OtherCustomer(gt, T("Small"), gi, T("62702")) :
        gt \in GardenTypes, gi \in GardenInterests}
    \cup {OtherCustomer(T("Herb Garden"), Null, json_dumps(Interests), T("62702")),
          OtherCustomer(Null, Null, Null, Null)}

PurchaseChoices ==
    {[date |-> "2024-02-02", total |-> tot, items |-> its] :
        tot \in {RealV(1999), T("abc")},
        its \in {<<>>,
                 << <<"fert-111", IntV(1)>>, <<"trowel-222", IntV(1)>> >>,
                 << <<"seeds-333", IntV(2)>>, <<"fert-111", T("two")>> >>}}

CallIds == {"CUST001", "CUST002"}

(* ------------------------------ state ---------------------------------- *)

VARIABLES
    \* the database file customer_service.db
    tables, customers, products, purchases, purchase_items, open_conns,
    \* whether the store failed an operation of the current call
    store_failed,
    \* the caller: where it is, the call it made, what came back, and what
    \* the first of two calls in a row gave
    pc, call, result, first, stdout,
    \* the frame of get_customer
    customer_id, conn, customer_row, billing_address, comm_prefs,
    garden_profile, purchase_rows, idx, item_rows, purchase_history,
    customer_data, exc, ret

store == <<tables, customers, products, purchases, purchase_items>>
locals == <<customer_row, billing_address, comm_prefs, garden_profile,
            purchase_rows, idx, item_rows, purchase_history, customer_data>>
frame == <<customer_id, conn, locals, exc, ret>>
vars == <<store, open_conns, store_failed, pc, call, result, first, stdout, frame>>

NoExc == [type |-> "", msg |-> ""]
Exc(type, msg) == [type |-> type, msg |-> msg]
NoResult == [kind |-> "none", exc |-> "", value |-> Unset]
Returned(v) == [kind |-> "return", exc |-> "", value |-> v]
Raised(type) == [kind |-> "raise", exc |-> type, value |-> Unset]
NoCall == [form |-> "", args |-> <<>>]
\* what the caller keeps of a finished call
NoFirst == [result |-> NoResult, store_failed |-> FALSE]

Init ==
    /\ tables = FALSE
    /\ customers = <<>> /\ products = <<>>
    /\ purchases = <<>> /\ purchase_items = <<>>
    /\ open_conns = 0 /\ store_failed = FALSE
    /\ pc = "idle" /\ call = NoCall /\ result = NoResult /\ first = NoFirst
    /\ stdout = <<>>
    /\ customer_id = Unset /\ conn = "None"
    /\ customer_row = Unset /\ billing_address = Unset /\ comm_prefs = Unset
    /\ garden_profile = Unset /\ purchase_rows = <<>> /\ idx = 0
    /\ item_rows = <<>> /\ purchase_history = <<>> /\ customer_data = Unset
    /\ exc = NoExc /\ ret = Unset

Resting == pc \in {"idle", "done"}

FreshFrame ==
    /\ conn' = "None" /\ store_failed' = FALSE
    /\ customer_row' = Unset /\ billing_address' = Unset /\ comm_prefs' = Unset
    /\ garden_profile' = Unset /\ purchase_rows' = <<>> /\ idx' = 0
    /\ item_rows' = <<>> /\ purchase_history' = <<>> /\ customer_data' = Unset
    /\ exc' = NoExc /\ ret' = Unset

\* No call in progress and nothing kept of the last one.
Idle ==
    /\ pc' = "idle" /\ call' = NoCall /\ result' = NoResult /\ first' = NoFirst
    /\ stdout' = <<>> /\ customer_id' = Unset
    /\ FreshFrame

(* ------------------------- setup_database.py --------------------------- *)

\* The whole script: drop the four tables, create them, insert the sample
\* rows, commit, close.
SetupDatabase ==
    /\ Resting
    /\ tables' = TRUE
    /\ customers' = <<SampleCustomer>>
    /\ products' = SampleProducts
    /\ purchases' = SampleDb.purchases
    /\ purchase_items' = SampleDb.purchase_items
    /\ Idle
    /\ UNCHANGED open_conns

\* Another writer adds a customers row.
ExternalInsertCustomer ==
    /\ Resting /\ tables
    /\ \E row \in CustomerChoices :
        /\ \A k \in 1..Len(customers) :
              /\ customers[k].customer_id # row.customer_id
              /\ customers[k].email # row.email
        /\ customers' = Append(customers, row)
    /\ Idle
    /\ UNCHANGED <<tables, products, purchases, purchase_items, open_conns>>

\* Another writer adds a purchase of the other customer, with its items.
ExternalInsertPurchase ==
    /\ Resting /\ tables
    /\ Len(purchases) < Len(sample_purchases) + MaxPurchases
    /\ \E k \in 1..Len(customers), p \in PurchaseChoices :
        /\ customers[k].customer_id = T("CUST002")
        /\ LET db == InsertPurchase([purchases |-> purchases,
                                     purchase_items |-> purchase_items],
                                    customers[k].customer_id, p)
           IN /\ purchases' = db.purchases
              /\ purchase_items' = db.purchase_items
    /\ Idle
    /\ UNCHANGED <<tables, customers, products, open_conns>>

(* ------------------------ Customer.get_customer ------------------------ *)

\* The positional arguments that reach the function: a classmethod is handed
\* the class first, the plain function object only what the caller wrote.
Passed(form, args) == IF form = "classmethod" THEN <<ClassObj>> \o args ELSE args

\* def get_customer(customer_id): one positional parameter.
Binds(form, args) == Len(Passed(form, args)) = 1

CallArgs == {<<>>} \cup {<<T(id)>> : id \in CallIds}
CallForms == {"classmethod", "function"}

Enter(form, args) ==
    /\ call' = [form |-> form, args |-> args]
    /\ stdout' = <<>>
    /\ FreshFrame
    /\ IF Binds(form, args)
       THEN /\ customer_id' = Passed(form, args)[1]
            /\ pc' = "connect"
            /\ result' = NoResult
       ELSE /\ customer_id' = Unset
            /\ pc' = "done"
            /\ result' = Raised("TypeError")
    /\ UNCHANGED <<store, open_conns>>

\* Customer.get_customer(...) through the class, or the function object
\* called directly.
Call ==
    /\ Resting
    /\ \E form \in CallForms, args \in CallArgs : Enter(form, args)
    /\ first' = NoFirst

\* The same call once more, right after it came back, the store untouched.
CallAgain ==
    /\ pc = "done" /\ call.form \in CallForms /\ first = NoFirst
    /\ Enter(call.form, call.args)
    /\ first' = [result |-> result, store_failed |-> store_failed]

\* The example entry point: Customer.get_customer_from_db(db_file, "CUST001"),
\* a name the class does not define.
Main ==
    /\ Resting
    /\ call' = [form |-> "main", args |-> <<T("customer_service.db"), T("CUST001")>>]
    /\ result' = Raised("AttributeError")
    /\ pc' = "done"
    /\ first' = NoFirst
    /\ stdout' = <<>>
    /\ customer_id' = Unset
    /\ FreshFrame
    /\ UNCHANGED <<store, open_conns>>

Raise(type, msg) ==
    /\ exc' = Exc(type, msg)
    /\ pc' = "except"

\* conn = sqlite3.connect('customer_service.db')
Connect ==
    /\ pc = "connect"
    /\ \E fault \in BOOLEAN :
        IF fault
        THEN /\ Raise("OperationalError", "unable to open database file")
             /\ store_failed' = TRUE
             /\ UNCHANGED <<conn, open_conns>>
        ELSE /\ conn' = "open"
             /\ open_conns' = open_conns + 1
             /\ pc' = "select_customer"
             /\ UNCHANGED <<exc, store_failed>>
    /\ UNCHANGED <<store, call, result, first, stdout, customer_id, locals, ret>>

\* What cursor.execute raises, NoExc when it runs: an I/O fault, a missing
\* table (the file was never set up), a parameter sqlite3 cannot bind.
ExecuteError(fault, param) ==
    IF fault THEN Exc("OperationalError", "disk I/O error")
    ELSE IF ~tables THEN Exc("OperationalError", "no such table")
    ELSE IF param.t \notin {"null", "integer", "real", "text"}
    THEN Exc("ProgrammingError", "Error binding parameter")
    ELSE NoExc

\* SELECT * FROM customers WHERE customer_id = ?
CustomerRows(id) == SelectSeq(customers, LAMBDA r : r.customer_id = id)

\* SELECT * FROM purchases WHERE customer_id = ?
PurchaseRows(id) == SelectSeq(purchases, LAMBDA r : r.customer_id = id)

\* SELECT pi.product_id, pi.quantity, p.name FROM purchase_items pi
\* JOIN products p ON pi.product_id = p.product_id WHERE pi.purchase_id = ?
RECURSIVE Join(_, _)
Join(lines, catalog) ==
    IF lines = <<>> THEN <<>>
    ELSE LET l == Head(lines)
             ps == SelectSeq(catalog, LAMBDA p : p.product_id = l.product_id)
         IN [k \in 1..Len(ps) |->
                [product_id |-> l.product_id, quantity |-> l.quantity,
                 name |-> ps[k].name]]
            \o Join(Tail(lines), catalog)

ItemRows(purchase_id) ==
    Join(SelectSeq(purchase_items, LAMBDA l : l.purchase_id = purchase_id),
         products)

\* lines 93-98
SelectCustomer ==
    /\ pc = "select_customer"
    /\ \E fault \in BOOLEAN :
        LET err == ExecuteError(fault, customer_id)
            rows == CustomerRows(customer_id)
        IN IF err # NoExc
           THEN /\ Raise(err.type, err.msg)
                /\ store_failed' = TRUE
                /\ UNCHANGED <<customer_row, stdout, ret>>
           ELSE IF rows = <<>>
           THEN /\ stdout' = <<"Customer with ID">> \o customer_id.s \o <<"not found.">>
                /\ ret' = Null
                /\ pc' = "finally"
                /\ UNCHANGED <<customer_row, exc, store_failed>>
           ELSE /\ customer_row' = rows[1]
                /\ pc' = "address"
                /\ UNCHANGED <<stdout, ret, exc, store_failed>>
    /\ UNCHANGED <<store, open_conns, call, result, first, customer_id, conn,
                   billing_address, comm_prefs, garden_profile, purchase_rows,
                   idx, item_rows, purchase_history, customer_data>>

\* lines 101-106
MakeAddress ==
    /\ pc = "address"
    /\ LET r == Address(customer_row.billing_address_street,
                        customer_row.billing_address_city,
                        customer_row.billing_address_state,
                        customer_row.billing_address_zip)
       IN IF r.err # ""
          THEN Raise(r.err, "") /\ UNCHANGED billing_address
          ELSE /\ billing_address' = r.val
               /\ pc' = "comm_prefs"
               /\ UNCHANGED exc
    /\ UNCHANGED <<store, store_failed, open_conns, call, result, first, stdout, customer_id,
                   conn, customer_row, comm_prefs, garden_profile,
                   purchase_rows, idx, item_rows, purchase_history,
                   customer_data, ret>>

\* lines 108-112
MakeCommPrefs ==
    /\ pc = "comm_prefs"
    /\ comm_prefs' =
          CommunicationPreferences(BoolV(bool(customer_row.comm_pref_email)),
                                   BoolV(bool(customer_row.comm_pref_sms)),
                                   BoolV(bool(customer_row.comm_pref_push))).val
    /\ pc' = "garden"
    /\ UNCHANGED <<store, store_failed, open_conns, call, result, first, stdout, customer_id,
                   conn, customer_row, billing_address, garden_profile,
                   purchase_rows, idx, item_rows, purchase_history,
                   customer_data, exc, ret>>

\* lines 114-122: [err, val], val being None unless garden_type is truthy
BuildGardenProfile(row) ==
    IF bool(row.garden_type)
    THEN LET j == json_loads(row.garden_interests)
         IN IF j.err # "" THEN [err |-> j.err, val |-> Unset]
            ELSE GardenProfile(row.garden_type, row.garden_size,
                               row.garden_sun_exposure, row.garden_soil_type,
                               j.val)
    ELSE [err |-> "", val |-> Null]

MakeGardenProfile ==
    /\ pc = "garden"
    /\ LET r == BuildGardenProfile(customer_row)
       IN IF r.err # ""
          THEN Raise(r.err, "") /\ UNCHANGED garden_profile
          ELSE /\ garden_profile' = r.val
               /\ pc' = "select_purchases"
               /\ UNCHANGED exc
    /\ UNCHANGED <<store, store_failed, open_conns, call, result, first, stdout, customer_id,
                   conn, customer_row, billing_address, comm_prefs,
                   purchase_rows, idx, item_rows, purchase_history,
                   customer_data, ret>>

\* lines 125-127, and the for loop's first step
SelectPurchases ==
    /\ pc = "select_purchases"
    /\ \E fault \in BOOLEAN :
        LET err == ExecuteError(fault, customer_id)
            rows == PurchaseRows(customer_id)
        IN IF err # NoExc
           THEN /\ Raise(err.type, err.msg)
                /\ store_failed' = TRUE
                /\ UNCHANGED <<purchase_rows, idx>>
           ELSE /\ purchase_rows' = rows
                /\ idx' = IF rows = <<>> THEN 0 ELSE 1
                /\ pc' = IF rows = <<>> THEN "assemble" ELSE "select_items"
                /\ UNCHANGED <<exc, store_failed>>
    /\ purchase_history' = <<>>
    /\ UNCHANGED <<store, open_conns, call, result, first, stdout, customer_id,
                   conn, customer_row, billing_address, comm_prefs,
                   garden_profile, item_rows, customer_data, ret>>

\* lines 130-136
SelectItems ==
    /\ pc = "select_items"
    /\ \E fault \in BOOLEAN :
        LET err == ExecuteError(fault, purchase_rows[idx].purchase_id)
        IN IF err # NoExc
           THEN /\ Raise(err.type, err.msg)
                /\ store_failed' = TRUE
                /\ UNCHANGED item_rows
           ELSE /\ item_rows' = ItemRows(purchase_rows[idx].purchase_id)
                /\ pc' = "purchase"
                /\ UNCHANGED <<exc, store_failed>>
    /\ UNCHANGED <<store, open_conns, call, result, first, stdout, customer_id,
                   conn, customer_row, billing_address, comm_prefs,
                   garden_profile, purchase_rows, idx, purchase_history,
                   customer_data, ret>>

\* lines 138-139: the list of Product, or the first construction failure
RECURSIVE Products(_)
Products(rows) ==
    IF rows = <<>> THEN [err |-> "", val |-> <<>>]
    ELSE LET p == Product(Head(rows).product_id, Head(rows).name,
                          Head(rows).quantity)
             rest == Products(Tail(rows))
         IN IF p.err # "" THEN [err |-> p.err, val |-> <<>>]
            ELSE IF rest.err # "" THEN rest
            ELSE [err |-> "", val |-> <<p.val>> \o rest.val]

\* lines 138-145
BuildPurchase(purchase_row, rows) ==
    LET items == Products(rows)
    IN IF items.err # "" THEN [err |-> items.err, val |-> Unset]
       ELSE Purchase(purchase_row.date, items.val, purchase_row.total_amount)

\* lines 138-146, and the for loop's next step
MakePurchase ==
    /\ pc = "purchase"
    /\ LET r == BuildPurchase(purchase_rows[idx], item_rows)
       IN IF r.err # ""
          THEN Raise(r.err, "") /\ UNCHANGED <<purchase_history, idx>>
          ELSE /\ purchase_history' = Append(purchase_history, r.val)
               /\ idx' = IF idx < Len(purchase_rows) THEN idx + 1 ELSE idx
               /\ pc' = IF idx < Len(purchase_rows)
                        THEN "select_items" ELSE "assemble"
               /\ UNCHANGED exc
    /\ UNCHANGED <<store, store_failed, open_conns, call, result, first, stdout, customer_id,
                   conn, customer_row, billing_address, comm_prefs,
                   garden_profile, purchase_rows, item_rows, customer_data, ret>>

\* lines 149-153: dict(customer_row) with the four nested values put in
CustomerData(row, address, history, prefs, garden) ==
    [k \in DOMAIN row \cup {"billing_address", "purchase_history",
                            "communication_preferences", "garden_profile"} |->
        CASE k = "billing_address" -> address
          [] k = "purchase_history" -> history
          [] k = "communication_preferences" -> prefs
          [] k = "garden_profile" -> garden
          [] OTHER -> row[k]]

\* lines 149-155: cls is no parameter of get_customer and no global of the
\* module, so evaluating it raises NameError before Customer is built.
Assemble ==
    /\ pc = "assemble"
    /\ customer_data' = CustomerData(customer_row, billing_address,
                                     purchase_history, comm_prefs,
                                     garden_profile)
    /\ Raise("NameError", "name 'cls' is not defined")
    /\ UNCHANGED <<store, store_failed, open_conns, call, result, first, stdout, customer_id,
                   conn, customer_row, billing_address, comm_prefs,
                   garden_profile, purchase_rows, idx, item_rows,
                   purchase_history, ret>>

\* the classes of sqlite3.Error
SqliteErrors ==
    {"Error", "DatabaseError", "OperationalError", "ProgrammingError",
     "IntegrityError", "InterfaceError", "DataError", "InternalError",
     "NotSupportedError"}

\* an except clause that matches every exception, and one that matches none
HandlesAny(type) == TRUE
HandlesNone(type) == FALSE
\* except sqlite3.Error as e
Handles(type) == type \in SqliteErrors

\* lines 157-159; an exception the clause does not match stays raised
Except ==
    /\ pc = "except"
    /\ IF Handles(exc.type)
       THEN /\ stdout' = <<"Database error:", exc.msg>>
            /\ ret' = Null
            /\ exc' = NoExc
       ELSE UNCHANGED <<stdout, ret, exc>>
    /\ pc' = "finally"
    /\ UNCHANGED <<store, store_failed, open_conns, call, result, first, customer_id, conn,
                   locals>>

\* a finally clause that leaves the connection as it is
LeftOpen(c) == c
\* if conn: conn.close()
CloseIfConn(c) == IF c # "None" THEN "closed" ELSE c

\* lines 160-162, then the call ends: it returns ret or the exception
\* leaves it
Finally ==
    /\ pc = "finally"
    /\ conn' = CloseIfConn(conn)
    /\ open_conns' = IF conn = "open" /\ conn' = "closed"
                     THEN open_conns - 1 ELSE open_conns
    /\ result' = IF exc # NoExc THEN Raised(exc.type) ELSE Returned(ret)
    /\ pc' = "done"
    /\ UNCHANGED <<store, store_failed, call, first, stdout, customer_id, locals, exc, ret>>

Next ==
    \/ SetupDatabase
    \/ ExternalInsertCustomer
    \/ ExternalInsertPurchase
    \/ Call
    \/ CallAgain
    \/ Main
    \/ Connect
    \/ SelectCustomer
    \/ MakeAddress
    \/ MakeCommPrefs
    \/ MakeGardenProfile
    \/ SelectPurchases
    \/ SelectItems
    \/ MakePurchase
    \/ Assemble
    \/ Except
    \/ Finally

Spec == Init /\ [][Next]_vars

(* ------------------------------ claims --------------------------------- *)

\* a call of get_customer with one customer_id has ended
FetchDone == pc = "done" /\ call.form \in CallForms /\ Len(call.args) = 1
AskedId == call.args[1]
HasRow(id) == tables /\ CustomerRows(id) # <<>>
RowOf(id) == CustomerRows(id)[1]

\* the purchase history the store holds for a customer, rebuilt
RECURSIVE History(_)
History(rows) ==
    IF rows = <<>> THEN [err |-> "", val |-> <<>>]
    ELSE LET p == BuildPurchase(Head(rows), ItemRows(Head(rows).purchase_id))
             rest == History(Tail(rows))
         IN IF p.err # "" THEN [err |-> p.err, val |-> <<>>]
            ELSE IF rest.err # "" THEN rest
            ELSE [err |-> "", val |-> <<p.val>> \o rest.val]

AddressOf(row) ==
    Address(row.billing_address_street, row.billing_address_city,
            row.billing_address_state, row.billing_address_zip)

PrefsOf(row) ==
    CommunicationPreferences(BoolV(bool(row.comm_pref_email)),
                             BoolV(bool(row.comm_pref_sms)),
                             BoolV(bool(row.comm_pref_push)))

\* a field the fetch builds a nested model from fails its type
Malformed(id) ==
    \/ AddressOf(RowOf(id)).err # ""
    \/ BuildGardenProfile(RowOf(id)).err # ""
    \/ History(PurchaseRows(id)).err # ""

\* the Customer the row and its purchases stand for
Expected(id) ==
    Customer(CustomerData(RowOf(id), AddressOf(RowOf(id)).val,
                          History(PurchaseRows(id)).val, PrefsOf(RowOf(id)).val,
                          BuildGardenProfile(RowOf(id)).val))

WellFormed(id) == ~Malformed(id) /\ Expected(id).err = ""

\* a fetch of a customer whose row is well formed has ended, the store
\* having answered every query
GoodFetchDone ==
    /\ FetchDone /\ HasRow(AskedId) /\ WellFormed(AskedId)
    /\ ~store_failed

\* the same, the body of get_customer having run on the customer_id
GoodBodyDone == GoodFetchDone /\ call.form = "function"

ReturnedCustomer == result.kind = "return" /\ result.value.t = "Customer"

\* C1: a fetch of a customer_id whose row is well formed returns a Customer
\* whose scalar fields are the row's columns and whose nested values are
\* the rebuilt address, preferences, garden profile and purchase history.
C1_ReturnsCustomer ==
    GoodFetchDone => result = Returned(Expected(AskedId).val)

\* C2: a fetch of a customer_id that has no row returns None and raises
\* nothing.
C2_AbsentReturnsNone ==
    (FetchDone /\ ~HasRow(AskedId)) => result = Returned(Null)

\* C3: whenever no call is in progress no connection is open: every
\* connection a fetch opened was closed before the call ended, whichever
\* way it ended.
C3_ConnectionClosed ==
    Resting => (open_conns = 0 /\ conn # "open")

\* a call that opened a connection ended with an error raised while the
\* customer was being rebuilt
C3_Witness ==
    /\ pc = "done" /\ conn = "closed" /\ open_conns = 0
    /\ result.kind = "raise"
    /\ result.exc \in {"JSONDecodeError", "ValidationError"}

\* C4: a store error (at connect or at any of the queries) is raised only
\* into the except clause, never leaves the call, and the call that caught
\* one returns None.
C4_StoreErrorGivesNone ==
    /\ exc.type \in SqliteErrors => pc = "except"
    /\ pc = "done" => ~(result.kind = "raise" /\ result.exc \in SqliteErrors)
    /\ (pc = "done" /\ store_failed) => result = Returned(Null)

\* the purchase-items query of an existing customer failed and the call
\* returned None
C4_Witness ==
    /\ FetchDone /\ HasRow(AskedId)
    /\ store_failed /\ stdout = <<"Database error:", "disk I/O error">>
    /\ purchase_rows # <<>> /\ conn = "closed"
    /\ result = Returned(Null)

ConstructionErrors == {"ValidationError", "JSONDecodeError", "TypeError"}

C6_GardenProfileAbsent ==
    GoodBodyDone =>
        /\ ReturnedCustomer
        /\ ~bool(RowOf(AskedId).garden_type)
              => result.value.garden_profile = Null
        /\ result.value.garden_profile # Null
              => /\ result.value.garden_profile.t = "GardenProfile"
                 /\ \A f \in {"type", "size", "sun_exposure", "soil_type"} :
                       ValidStr(result.value.garden_profile[f])

\* C7: the garden_interests stored for CUST001 is the serialized list of
\* the three interests and deserializes to them, in order.
SampleInterests ==
    PyList(<<T("Organic Gardening"), T("Composting"), T("Herb Growing")>>)

C7_SeedRoundTrip ==
    HasRow(T("CUST001")) =>
        /\ RowOf(T("CUST001")).garden_interests = json_dumps(SampleInterests)
        /\ json_loads(RowOf(T("CUST001")).garden_interests).err = ""
        /\ json_loads(RowOf(T("CUST001")).garden_interests).val = SampleInterests

\* the lines of a purchase and the catalog names of their products
LinesOf(purchase_id) ==
    SelectSeq(purchase_items, LAMBDA l : l.purchase_id = purchase_id)
NameOf(product_id) ==
    (CHOOSE p \in {products[k] : k \in 1..Len(products)} :
        p.product_id = product_id).name

\* C8: a fetch whose body ran on a well-formed customer with purchases
\* returns a Customer, and each returned Purchase has one Product per purchase_items line of
\* that purchase, with the line's product_id and quantity and the catalog
\* name, and the stored total_amount.
C8_ItemsPerLine ==
    (GoodBodyDone /\ PurchaseRows(AskedId) # <<>>) =>
        /\ ReturnedCustomer
        /\ Len(result.value.purchase_history) = Len(PurchaseRows(AskedId))
        /\ \A k \in 1..Len(PurchaseRows(AskedId)) :
            LET row == PurchaseRows(AskedId)[k]
                lines == LinesOf(row.purchase_id)
                got == result.value.purchase_history[k]
            IN /\ got.total_amount = row.total_amount
               /\ Len(got.items) = Len(lines)
               /\ \A j \in 1..Len(lines) :
                     /\ got.items[j].product_id = lines[j].product_id
                     /\ got.items[j].quantity = lines[j].quantity
                     /\ got.items[j].name = NameOf(lines[j].product_id)

\* C9: the second of two calls in a row with the same customer_id (one that
\* has no row, or a well-formed one), the store untouched and answering
\* both, gives what the first gave: the same Customer, or None both times.
C9_SameResultTwice ==
    (FetchDone /\ first # NoFirst
       /\ (HasRow(AskedId) => WellFormed(AskedId))
       /\ ~store_failed /\ ~first.store_failed)
        => /\ result = first.result
           /\ result.kind = "return"

\* C10: a fetch whose body ran on a well-formed row returns a Customer, and
\* the returned purchase history has one Purchase per purchases row
\* of the customer and none of another customer's; with no such row the
\* Customer is returned with an empty history.
C10_OnePurchasePerRow ==
    GoodBodyDone =>
        /\ ReturnedCustomer
        /\ Len(result.value.purchase_history)
              = Cardinality({k \in 1..Len(purchases) :
                               purchases[k].customer_id = AskedId})
        /\ \A k \in 1..Len(result.value.purchase_history) :
              /\ PurchaseRows(AskedId)[k].customer_id = AskedId
              /\ result.value.purchase_history[k].date
                    = PurchaseRows(AskedId)[k].date

====
